---- MODULE Spec2Model ----
(***************************************************************************)
(* Model of the Synapse core daemon (synapse-core-daemon/src/index.ts),    *)
(* its state machine (stateMachine.ts) and the mock capability adapters    *)
(* (symbios-connector, voice-pipeline, ui-executor-bridge).                *)
(*                                                                         *)
(* Numbers.  computeMixWeight is kept in hundredths (0.5 is 50, the dial   *)
(* step 0.05 is 5) and contextWindowTokens in thousands (32_000 is 32,     *)
(* the dial step 6_000 is 6); dial values are integers.                    *)
(*                                                                         *)
(* Scheduling.  Every handler of the Node event loop runs to completion:   *)
(* one action is one handler, or one stretch of processHardwareEvent       *)
(* between two awaits.  `await adapter.call()` is a suspension point: the  *)
(* adapter's effect (the body of the mock's async function) happens at the *)
(* call, the caller resumes in a later step, and any other handler or      *)
(* continuation may run in between, as the adapter interfaces return       *)
(* Promise<void> settled by the adapter.  The .then callback of a promise  *)
(* chain whose previous link has settled is a microtask: it runs before    *)
(* any other handler (MicrotaskPending).                                   *)
(***************************************************************************)
EXTENDS Integers, Sequences, FiniteSets, TLC

\* ------------------------------------------------------------------ bounds

\* connection slots (sockets alive at the same time)
NumConns == 2
\* hardware events chained and not yet started, over all connections
MaxQueue == 1
\* the same, when a single connection is served (SoloSpec)
MaxSoloQueue == 2

\* DIAL_COMPUTE events sent in a row in DialSpec
MaxDials == 4
MaxSockets == 3
MaxReconnectSockets == 12

Conns == 1..NumConns

\* ------------------------------------------------------- program constants

WEIGHT_STEP == 5
WEIGHT_MAX == 100
INITIAL_WEIGHT == 50
TOKEN_STEP == 6
TOKEN_MIN == 8
TOKEN_MAX == 128
INITIAL_TOKENS == 32
MODEL_THRESHOLD == 50

Min(a, b) == IF a < b THEN a ELSE b
Max(a, b) == IF a > b THEN a ELSE b

Personas == {"CODER", "NAVIGATOR", "RESEARCHER"}
Phases == {"IDLE", "CLUTCH_ENGAGED", "VOICE_ACTIVE", "AGENT_EXECUTING"}

\* the value of an absent optional field
Undefined == "undefined"

\* ------------------------------------------------- SynapseMachine (pure)

\* A machine is [stateValue, data]; send returns the machine after the event.
InitialMachine ==
    [stateValue |-> "IDLE",
     data |-> [isClutchEngaged |-> FALSE,
               activeAgentContext |-> "CODER",
               computeMixWeight |-> INITIAL_WEIGHT,
               voicePipelineStatus |-> "IDLE"]]

\* a release that leaves the voice status as it is: what C3 must tell apart
releaseClutchKeepsVoice(m) ==
    [stateValue |-> "IDLE", data |-> [m.data EXCEPT !.isClutchEngaged = FALSE]]

\* a release that goes back to the default persona: what C28 must tell apart
releaseClutchResetsPersona(m) ==
    [stateValue |-> "IDLE",
     data |-> [m.data EXCEPT !.isClutchEngaged = FALSE,
                             !.voicePipelineStatus = "IDLE",
                             !.activeAgentContext = "CODER"]]

releaseClutch(m) ==
    [stateValue |-> "IDLE",
     data |-> [m.data EXCEPT !.isClutchEngaged = FALSE,
                             !.voicePipelineStatus = "IDLE"]]

\* a dial step without the clamp: what C16 and C17 must tell apart
applyDialComputeUnclamped(m, delta) ==
    [m EXCEPT !.data.computeMixWeight =
        m.data.computeMixWeight + delta * WEIGHT_STEP]

applyDialCompute(m, delta) ==
    [m EXCEPT !.data.computeMixWeight =
        Min(WEIGHT_MAX, Max(0, m.data.computeMixWeight + delta * WEIGHT_STEP))]

\* an engage that changes the phase and leaves the flag: what C15 must tell
\* apart
handleIdleKeepsFlag(m, event) ==
    CASE event.type = "CLUTCH_ENGAGE" ->
            [stateValue |-> "CLUTCH_ENGAGED",
             data |-> [m.data EXCEPT !.voicePipelineStatus = "LISTENING"]]
      [] event.type = "DIAL_COMPUTE" -> applyDialCompute(m, event.delta)
      [] OTHER -> m

handleIdle(m, event) ==
    CASE event.type = "CLUTCH_ENGAGE" ->
            [stateValue |-> "CLUTCH_ENGAGED",
             data |-> [m.data EXCEPT
                         !.isClutchEngaged = TRUE,
                         !.voicePipelineStatus = "LISTENING",
                         !.activeAgentContext =
                             IF event.persona = Undefined
                             THEN m.data.activeAgentContext
                             ELSE event.persona]]
      [] event.type = "DIAL_COMPUTE" -> applyDialCompute(m, event.delta)
      [] event.type = "DIAL_CONTEXT" -> m
      [] event.type = "KEYPAD_SWITCH" ->
            [m EXCEPT !.data.activeAgentContext = event.persona]
      [] OTHER -> m

\* an engaged machine that ignores the compute dial: what C18 must tell apart
handleClutchEngagedIgnoresDial(m, event) ==
    CASE event.type = "CLUTCH_RELEASE" -> releaseClutch(m)
      [] event.type = "VOICE_READY" ->
            [stateValue |-> "VOICE_ACTIVE",
             data |-> [m.data EXCEPT !.voicePipelineStatus = "PROCESSING"]]
      [] OTHER -> m

handleClutchEngaged(m, event) ==
    CASE event.type = "CLUTCH_RELEASE" -> releaseClutch(m)
      [] event.type = "VOICE_READY" ->
            [stateValue |-> "VOICE_ACTIVE",
             data |-> [m.data EXCEPT !.voicePipelineStatus = "PROCESSING"]]
      [] event.type = "DIAL_COMPUTE" -> applyDialCompute(m, event.delta)
      [] event.type = "KEYPAD_SWITCH" ->
            [m EXCEPT !.data.activeAgentContext = event.persona]
      [] OTHER -> m

\* an AGENT_READY that ends the voice pipeline: what C14 must tell apart
handleVoiceActiveEndsVoice(m, event) ==
    CASE event.type = "CLUTCH_RELEASE" -> releaseClutch(m)
      [] event.type = "AGENT_READY" ->
            [stateValue |-> "AGENT_EXECUTING",
             data |-> [m.data EXCEPT !.voicePipelineStatus = "IDLE"]]
      [] event.type = "DIAL_COMPUTE" -> applyDialCompute(m, event.delta)
      [] OTHER -> m

handleVoiceActive(m, event) ==
    CASE event.type = "CLUTCH_RELEASE" -> releaseClutch(m)
      [] event.type = "AGENT_READY" -> [m EXCEPT !.stateValue = "AGENT_EXECUTING"]
      [] event.type = "DIAL_COMPUTE" -> applyDialCompute(m, event.delta)
      [] OTHER -> m

\* an executing machine that takes the keypad: what C29 must tell apart
handleAgentExecutingSwitches(m, event) ==
    CASE event.type = "CLUTCH_RELEASE" -> releaseClutch(m)
      [] event.type = "DIAL_COMPUTE" -> applyDialCompute(m, event.delta)
      [] event.type = "KEYPAD_SWITCH" ->
            [m EXCEPT !.data.activeAgentContext = event.persona]
      [] OTHER -> m

handleAgentExecuting(m, event) ==
    CASE event.type = "CLUTCH_RELEASE" -> releaseClutch(m)
      [] event.type = "DIAL_COMPUTE" -> applyDialCompute(m, event.delta)
      [] OTHER -> m

send(m, event) ==
    CASE m.stateValue = "IDLE" -> handleIdle(m, event)
      [] m.stateValue = "CLUTCH_ENGAGED" -> handleClutchEngaged(m, event)
      [] m.stateValue = "VOICE_ACTIVE" -> handleVoiceActive(m, event)
      [] m.stateValue = "AGENT_EXECUTING" -> handleAgentExecuting(m, event)
      [] OTHER -> m

\* ------------------------------------------- hardware events (pure)

DeviceIds == {"MX_MASTER_4", "MX_CREATIVE_CONSOLE"}
ComponentIds == {"ACTIONS_RING", "DIAL_A", "DIAL_B", "KEYPAD"}
EventTypes == {"PRESS", "RELEASE", "ROTATE", "TAP"}

\* event.value: a number, a string, or absent
Num(n) == [kind |-> "number", n |-> n]
Str == [kind |-> "string", n |-> 0]
NoValue == [kind |-> Undefined, n |-> 0]

\* a raw websocket message: text that JSON.parse accepts (json) and the
\* object it parses to, or text it throws on
Raw(ts, dev, comp, ty, val) ==
    [json |-> TRUE, timestamp |-> ts, deviceId |-> dev, componentId |-> comp,
     eventType |-> ty, value |-> val]
NotJson ==
    [json |-> FALSE, timestamp |-> 0, deviceId |-> "", componentId |-> "",
     eventType |-> "", value |-> NoValue]

\* LogiHardwareEventSchema.parse succeeds
LogiHardwareEventSchema(payload) ==
    /\ payload.timestamp > 0
    /\ payload.deviceId \in DeviceIds
    /\ payload.componentId \in ComponentIds
    /\ payload.eventType \in EventTypes
    /\ payload.value.kind \in {"number", "string", Undefined}

\* a handler that parses the JSON and skips the schema: what C9 must tell
\* apart
ParsesJsonOnly(raw) == raw.json

\* JSON.parse(raw) then LogiHardwareEventSchema.parse: TRUE when neither throws
ParsesToEvent(raw) == raw.json /\ LogiHardwareEventSchema(raw)

\* the parsed event (the schema strips nothing the daemon reads)
ParsedEvent(raw) ==
    [timestamp |-> raw.timestamp, deviceId |-> raw.deviceId,
     componentId |-> raw.componentId, eventType |-> raw.eventType,
     value |-> raw.value]

\* a mapping that does not look at the device: what C24 must tell apart
mapIgnoringDevice(event) ==
    CASE event.componentId = "ACTIONS_RING" /\ event.eventType = "PRESS" ->
            "SYNAPSE_CLUTCH_ENGAGE"
      [] event.componentId = "ACTIONS_RING" /\ event.eventType = "RELEASE" ->
            "SYNAPSE_CLUTCH_RELEASE"
      [] event.componentId = "DIAL_A" /\ event.eventType = "ROTATE" ->
            "SYNAPSE_DIAL_COMPUTE_MIX"
      [] event.componentId = "DIAL_B" /\ event.eventType = "ROTATE" ->
            "SYNAPSE_DIAL_CONTEXT_WINDOW"
      [] event.componentId = "KEYPAD" /\ event.eventType \in {"PRESS", "TAP"} ->
            "SYNAPSE_KEYPAD_CONTEXT_SWITCH"
      [] OTHER -> Undefined

mapHardwareEventToSynapseType(event) ==
    IF /\ event.deviceId = "MX_MASTER_4"
       /\ event.componentId = "ACTIONS_RING"
       /\ event.eventType \in {"PRESS", "RELEASE"}
    THEN IF event.eventType = "PRESS"
         THEN "SYNAPSE_CLUTCH_ENGAGE"
         ELSE "SYNAPSE_CLUTCH_RELEASE"
    ELSE IF event.deviceId = "MX_CREATIVE_CONSOLE"
         THEN IF event.componentId = "DIAL_A" /\ event.eventType = "ROTATE"
              THEN "SYNAPSE_DIAL_COMPUTE_MIX"
              ELSE IF event.componentId = "DIAL_B" /\ event.eventType = "ROTATE"
              THEN "SYNAPSE_DIAL_CONTEXT_WINDOW"
              ELSE IF event.componentId = "KEYPAD"
                      /\ event.eventType \in {"PRESS", "TAP"}
              THEN "SYNAPSE_KEYPAD_CONTEXT_SWITCH"
              ELSE Undefined
         ELSE Undefined

\* typeof event.value === 'number' ? event.value : 0
NumberOrZero(event) == IF event.value.kind = "number" THEN event.value.n ELSE 0

\* ------------------------------------------------------ MockKernelMixer

selectModel(weight) ==
    IF weight < MODEL_THRESHOLD THEN "LOCAL_LLAMA3" ELSE "CLOUD_CLAUDE_3_5_SONNET"

dialDeltaToComputeWeight(currentWeight, delta) ==
    Min(WEIGHT_MAX, Max(0, currentWeight + delta * WEIGHT_STEP))

\* a context dial of 8k tokens a tick: what C20 must tell apart
dialDeltaToContextTokensBy8(currentTokens, delta) ==
    Min(TOKEN_MAX, Max(TOKEN_MIN, currentTokens + delta * 8))

dialDeltaToContextTokens(currentTokens, delta) ==
    Min(TOKEN_MAX, Max(TOKEN_MIN, currentTokens + delta * TOKEN_STEP))

InitialKernelConfig ==
    [computeMixWeight |-> INITIAL_WEIGHT,
     contextWindowTokens |-> INITIAL_TOKENS,
     primaryModel |-> "LOCAL_LLAMA3"]

setComputeMix(config, weight) ==
    [config EXCEPT !.computeMixWeight = Min(WEIGHT_MAX, Max(0, weight)),
                   !.primaryModel = selectModel(weight)]

setContextWindow(config, tokens) ==
    [config EXCEPT !.contextWindowTokens = Min(TOKEN_MAX, Max(TOKEN_MIN, tokens))]

\* ---------------------------------------------------- MockVoicePipeline

\* the status after the body of engage() / release() has run
voiceEngage(status) == IF status = "LISTENING" THEN status ELSE "LISTENING"
voiceRelease(status) == IF status = "IDLE" THEN status ELSE "IDLE"

\* ------------------------------------------------- MockUiExecutorBridge

\* handedOffAt is 0 when the field is absent
InitialControlState ==
    [owner |-> "PHYSICAL_MOUSE", handedOffAt |-> 0, activePersona |-> "CODER"]

\* ClutchEventSchema.parse succeeds
ClutchEventSchema(event) ==
    /\ event.type \in {"ENGAGE", "RELEASE"}
    /\ event.timestamp > 0
    /\ event.agentPersona \in Personas

\* engage without the early return: what C22 must tell apart
bridgeEngageAgain(state, event) ==
    [owner |-> "JAYU_AGENT", handedOffAt |-> event.timestamp,
     activePersona |-> event.agentPersona]

bridgeEngage(state, event) ==
    IF state.owner = "JAYU_AGENT"
    THEN state
    ELSE [owner |-> "JAYU_AGENT", handedOffAt |-> event.timestamp,
          activePersona |-> event.agentPersona]

bridgeRelease(state, event) ==
    [owner |-> "PHYSICAL_MOUSE", handedOffAt |-> 0,
     activePersona |-> event.agentPersona]

switchPersona(state, persona) == [state EXCEPT !.activePersona = persona]

\* a lookup with a fourth key: what C25 must tell apart
keypadToPersonaFourKeys(key) ==
    CASE key = 1 -> "CODER"
      [] key = 2 -> "NAVIGATOR"
      [] key = 3 -> "RESEARCHER"
      [] key = 4 -> "CODER"
      [] OTHER -> Undefined

keypadToPersona(key) ==
    CASE key = 1 -> "CODER"
      [] key = 2 -> "NAVIGATOR"
      [] key = 3 -> "RESEARCHER"
      [] OTHER -> Undefined

\* ------------------------------------------------- LogiActionsPlugin

MAX_RECONNECT_ATTEMPTS == 10

\* lastState: null
Null == [null |-> TRUE]

\* the plugin object after construction; ws is the index of its socket among
\* those the factory has made, 0 for null; timers counts the setTimeout
\* callbacks scheduled and neither cleared nor run
InitialPlugin ==
    [ws |-> 0,
     state |-> [connected |-> FALSE, reconnectAttempts |-> 0,
                lastState |-> Null],
     reconnectTimer |-> "null",
     timers |-> 0,
     destroyed |-> FALSE]

\* wsFactory(url): one more socket, still connecting
wsFactory(sockets) ==
    Append(sockets, [readyState |-> "CONNECTING", sentMessages |-> {}])

\* ws.close() on socket ws (previousWs?.close(), this.ws?.close()): the close
\* event comes later
wsClose(sockets, ws) ==
    IF ws = 0 \/ sockets[ws].readyState \in {"CLOSING", "CLOSED"}
    THEN sockets
    ELSE [sockets EXCEPT ![ws].readyState = "CLOSING"]

\* ws.send(data) throws on a connecting socket
wsSendThrows(sockets, ws) == sockets[ws].readyState = "CONNECTING"

\* ws.send(data): on the wire when the socket is open, discarded when it is
\* closing or closed
wsSend(sockets, ws, data) ==
    IF sockets[ws].readyState = "OPEN"
    THEN [sockets EXCEPT ![ws].sentMessages = @ \cup {data}]
    ELSE sockets

\* JSON.stringify(event)
JSONstringify(event) ==
    Raw(event.timestamp, event.deviceId, event.componentId, event.eventType,
        event.value)

\* if (this.reconnectTimer !== null) { clearTimeout(...); ... = null }
clearReconnectTimer(p) ==
    IF p.reconnectTimer = "null"
    THEN p
    ELSE [p EXCEPT !.reconnectTimer = "null", !.timers = @ - 1]

\* connect() without the check of destroyed
connectAfterDestroy(p, sockets) ==
    [plugin |-> [clearReconnectTimer(p) EXCEPT !.ws = Len(sockets) + 1],
     sockets |-> wsClose(wsFactory(sockets), p.ws)]

\* connect(): the plugin object and the sockets after the call
connect(p, sockets) ==
    IF p.destroyed
    THEN [plugin |-> p, sockets |-> sockets]
    ELSE [plugin |-> [clearReconnectTimer(p) EXCEPT !.ws = Len(sockets) + 1],
          sockets |-> wsClose(wsFactory(sockets), p.ws)]

\* the handlers of socket ws return at once
Stale(p, ws) == p.destroyed \/ p.ws # ws

\* scheduleReconnect without the limit on the attempts
scheduleReconnectUnbounded(p) ==
    IF \/ p.destroyed
       \/ p.reconnectTimer # "null"
    THEN p
    ELSE [p EXCEPT !.reconnectTimer = "pending", !.timers = @ + 1]

scheduleReconnect(p) ==
    IF \/ p.destroyed
       \/ p.reconnectTimer # "null"
       \/ p.state.reconnectAttempts >= MAX_RECONNECT_ATTEMPTS
    THEN p
    ELSE [p EXCEPT !.reconnectTimer = "pending", !.timers = @ + 1]

onopen(p, ws) ==
    IF Stale(p, ws)
    THEN p
    ELSE [clearReconnectTimer(p) EXCEPT
                   !.state.connected = TRUE,
                   !.state.reconnectAttempts = 0]

onmessage(p, ws, msg) ==
    IF Stale(p, ws)
    THEN p
    ELSE IF msg.json /\ msg.type = "STATE_UPDATE" /\ msg.state # Null
         THEN [p EXCEPT !.state.lastState = msg.state]
         ELSE p

onclose(p, ws) ==
    IF Stale(p, ws)
    THEN p
    ELSE scheduleReconnect([p EXCEPT !.state.connected = FALSE])

onerror(p, ws) ==
    IF Stale(p, ws)
    THEN p
    ELSE [p EXCEPT !.state.connected = FALSE]

\* a sendHardwareEvent that does not look at state.connected: what C26 must
\* tell apart
ForwardsWithoutConnection(p, event) ==
    p.ws # 0 /\ LogiHardwareEventSchema(event)

\* a sendHardwareEvent that does not validate: what C27 must tell apart
ForwardsUnvalidated(p, event) == p.state.connected /\ p.ws # 0

\* sendHardwareEvent(event) gets as far as this.ws.send
Forwards(p, event) ==
    /\ p.state.connected
    /\ p.ws # 0
    /\ LogiHardwareEventSchema(event)

\* destroy()
destroy(p, sockets) ==
    [plugin |-> [clearReconnectTimer(p) EXCEPT
                          !.destroyed = TRUE,
                          !.ws = 0,
                          !.state.connected = FALSE,
                          !.state.reconnectAttempts = 0],
     sockets |-> wsClose(sockets, p.ws)]

\* ------------------------------------------------------------ daemon state

VARIABLES
    machine,                    \* SynapseMachine: [stateValue, data]
    kernelMixer,                \* MockKernelMixer.config
    voicePipeline,              \* MockVoicePipeline.status
    uiBridge,                   \* MockUiExecutorBridge.state
    DEMO_TRANSCRIPTION_ENABLED, \* process.env.SYNAPSE_DEMO_TRANSCRIPTION === '1'
    demoTranscriptionTimeouts,  \* the timers still to fire
    lastTranscription,
    configuredToken,            \* process.env.SYNAPSE_WS_TOKEN ("" when unset)
    clients,                    \* Set<WebSocket>
    socket,                     \* per connection: the state of its socket
    conn,                       \* per connection: the locals of the /ws handler
    inboundEventQueue,          \* per connection: events chained, not yet started
    run,                        \* per connection: its processHardwareEvent call
    out,                        \* per connection: the message the last step delivered
    last,                       \* the handler the last step ran, and its input
    deadManFired,               \* the dead-man switch fired and no client came since
    plugin,                     \* LogiActionsPlugin: [ws, state, reconnectTimer, timers, destroyed]
    pluginSockets               \* the sockets wsFactory has made: [readyState, sentMessages]

vars == <<machine, kernelMixer, voicePipeline, uiBridge,
          DEMO_TRANSCRIPTION_ENABLED, demoTranscriptionTimeouts,
          lastTranscription, configuredToken, clients, socket, conn,
          inboundEventQueue, run, out, last, deadManFired, plugin,
          pluginSockets>>

\* the daemon's side, but for the record of the last step
daemonVars == <<machine, kernelMixer, voicePipeline, uiBridge,
                DEMO_TRANSCRIPTION_ENABLED, demoTranscriptionTimeouts,
                lastTranscription, configuredToken, clients, socket, conn,
                inboundEventQueue, run, out, deadManFired>>
pluginVars == <<plugin, pluginSockets>>
sessionVars == <<machine, kernelMixer, voicePipeline, uiBridge>>
envVars == <<DEMO_TRANSCRIPTION_ENABLED, configuredToken>>

\* ----------------------------------------------------------------- inputs

ClutchPress(ts) == Raw(ts, "MX_MASTER_4", "ACTIONS_RING", "PRESS", NoValue)
ClutchRelease == Raw(1, "MX_MASTER_4", "ACTIONS_RING", "RELEASE", NoValue)
DialA(v) == Raw(1, "MX_CREATIVE_CONSOLE", "DIAL_A", "ROTATE", Num(v))
DialB(v) == Raw(1, "MX_CREATIVE_CONSOLE", "DIAL_B", "ROTATE", Num(v))
Keypad(v) == Raw(1, "MX_CREATIVE_CONSOLE", "KEYPAD", "PRESS", Num(v))
Unmapped == Raw(1, "MX_MASTER_4", "KEYPAD", "ROTATE", NoValue)
BadTimestamp == Raw(0, "MX_MASTER_4", "ACTIONS_RING", "PRESS", NoValue)
BadDevice == Raw(1, "UNKNOWN_DEVICE", "ACTIONS_RING", "PRESS", NoValue)

\* what the clients of Spec send: the clutch, an event without mapping and a
\* payload that fails the schema
CoreMessages ==
    {ClutchPress(1), ClutchRelease, Unmapped, BadTimestamp}

\* ?role= and ?token= of the connection URL (Undefined: parameter absent)
RoleParams == {"plugin", "viewer", Undefined}
TokenParams == {"secret", "wrong", Undefined}

\* ------------------------------------------------------- messages sent

NoMsg == [type |-> "NONE"]
ErrorMsg(text) == [type |-> "ERROR", message |-> text]

\* a snapshot that reports the OS control state of a fresh bridge: what C13
\* must tell apart
getOsControlStateAtStart(bridge) == InitialControlState

getOsControlState(bridge) == bridge

\* the STATE_UPDATE message built from the current state
StateUpdate(synapseType, machineState, m, k, b, t) ==
    [type |-> "STATE_UPDATE", synapseType |-> synapseType,
     machineState |-> machineState, state |-> m.data, kernelConfig |-> k,
     osControlState |-> getOsControlState(b), transcription |-> t]

\* socket states: OPEN; BROKEN (readyState OPEN, send throws); CLOSING (the
\* peer is gone, 'close' not yet emitted); CLOSED
readyState(s) == IF s \in {"OPEN", "BROKEN"} THEN "OPEN" ELSE s
\* socket.send(msg) throws
SendThrows(s) == s = "BROKEN"
\* socket.send(msg) puts msg on the wire
Delivers(s) == s = "OPEN"

\* broadcast(payload): the client set it leaves
BroadcastKeeps(cl, sk) ==
    {c \in cl : readyState(sk[c]) = "OPEN" /\ ~SendThrows(sk[c])}

\* a broadcast whose loop has no try/catch, so that one throwing send ends
\* it: what C12 must tell apart
BroadcastOutUncaught(cl, sk, msg) ==
    [c \in Conns |->
        IF /\ c \in cl
           /\ Delivers(sk[c])
           /\ \A d \in cl : ~SendThrows(sk[d])
        THEN msg ELSE NoMsg]

\* broadcast(payload): what each connection receives
BroadcastOut(cl, sk, msg) ==
    [c \in Conns |->
        IF c \in cl /\ readyState(sk[c]) = "OPEN" /\ Delivers(sk[c])
        THEN msg ELSE NoMsg]

NoOut == [c \in Conns |-> NoMsg]

clearDemoTranscription(timeouts) == {}

scheduleDemoTranscription(enabled, timeouts) ==
    IF ~enabled THEN timeouts ELSE {"partial", "final", "ready"}

IdleRun == [pc |-> "idle"]

Did(op, c, result, arg) == [op |-> op, conn |-> c, result |-> result, arg |-> arg]

\* a chain that close cuts off, its waiting callbacks never run: what C32
\* must tell apart
CanStartUnlessClosed(c) ==
    run[c] = IdleRun /\ inboundEventQueue[c] # <<>> /\ ~conn[c].isClosed

\* the chain of c is ready to call processHardwareEvent for its next event:
\* the link before it has settled
CanStart(c) == run[c] = IdleRun /\ inboundEventQueue[c] # <<>>

\* a .then callback is in the microtask queue: the event loop runs it before
\* it takes another socket event, timer or adapter completion
MicrotaskPending == \E c \in Conns : CanStart(c)

\* ------------------------------------------------------------------- Init

\* The daemon after module load, before buildServer() has accepted anything,
\* for one environment: env.
InitIn(demo, token) ==
    /\ machine = InitialMachine
    /\ kernelMixer = InitialKernelConfig
    /\ voicePipeline = "IDLE"
    /\ uiBridge = InitialControlState
    /\ DEMO_TRANSCRIPTION_ENABLED = demo
    /\ demoTranscriptionTimeouts = {}
    /\ lastTranscription = Undefined
    /\ configuredToken = token
    /\ clients = {}
    /\ socket = [c \in Conns |-> "NONE"]
    /\ conn = [c \in Conns |-> [stage |-> "none", role |-> "viewer",
                                canSendEvents |-> FALSE, isClosed |-> FALSE]]
    /\ inboundEventQueue = [c \in Conns |-> <<>>]
    /\ run = [c \in Conns |-> IdleRun]
    /\ out = NoOut
    /\ last = Did("init", 0, "none", Undefined)
    /\ deadManFired = FALSE
    /\ plugin = InitialPlugin
    /\ pluginSockets = <<>>

\* SYNAPSE_WS_TOKEN set and SYNAPSE_DEMO_TRANSCRIPTION=1.  What the daemon does
\* in the other environments it also does in this one: without the demo flag
\* no timer is ever set, as when none of them fires; without a token every
\* plugin is admitted, as one that presents the right token.
Init == InitIn(TRUE, "secret")

\* ------------------------------------------------------- the /ws handler

\* a slot stands for a new socket once nothing of its previous one is left
SlotFree(c) ==
    \/ conn[c].stage = "none"
    \/ /\ conn[c].stage \in {"closed", "rejected"}
       /\ inboundEventQueue[c] = <<>>
       /\ run[c] = IdleRun

CanSendEvents(role, token, configured) ==
    role = "plugin" /\ (configured = "" \/ token = configured)

\* a check that turns away only the plugin without any token: what C6 must
\* tell apart
RejectedIfMissing(role, token, configured) ==
    role = "plugin" /\ configured # "" /\ token = Undefined

Rejected(role, token, configured) ==
    role = "plugin" /\ configured # "" /\ ~CanSendEvents(role, token, configured)

Connect(c, roleParam, tokenParam) ==
    LET role == IF roleParam = Undefined THEN "viewer" ELSE roleParam
        canSendEvents == CanSendEvents(role, tokenParam, configuredToken)
        arg == [role |-> roleParam, token |-> tokenParam]
    IN  /\ ~MicrotaskPending
        /\ SlotFree(c)
        /\ IF Rejected(role, tokenParam, configuredToken)
           THEN /\ out' = [NoOut EXCEPT ![c] = ErrorMsg("Invalid token")]
                /\ socket' = [socket EXCEPT ![c] = "CLOSING"]
                /\ conn' = [conn EXCEPT ![c] =
                              [stage |-> "rejected", role |-> role,
                               canSendEvents |-> FALSE, isClosed |-> FALSE]]
                /\ last' = Did("connect", c, "rejected", arg)
                /\ UNCHANGED <<clients, deadManFired>>
           ELSE /\ clients' = clients \cup {c}
                /\ socket' = [socket EXCEPT ![c] = "OPEN"]
                /\ out' = [NoOut EXCEPT ![c] =
                             StateUpdate(Undefined, machine.stateValue, machine,
                                         kernelMixer, uiBridge, lastTranscription)]
                /\ conn' = [conn EXCEPT ![c] =
                              [stage |-> "attached", role |-> role,
                               canSendEvents |-> canSendEvents,
                               isClosed |-> FALSE]]
                /\ last' = Did("connect", c, "accepted", arg)
                /\ deadManFired' = FALSE
        /\ UNCHANGED <<sessionVars, envVars, pluginVars, demoTranscriptionTimeouts,
                       lastTranscription, inboundEventQueue, run>>

\* a message handler on every connection: what C7 and C8 must tell apart
MessageHandlerAlways(canSendEvents) == TRUE

\* if (canSendEvents) connection.on('message', ...)
MessageHandlerRegistered(canSendEvents) == canSendEvents

\* a chain that puts the new event in front: what C5 must tell apart
ChainInFront(queue, event) == <<event>> \o queue

\* inboundEventQueue = inboundEventQueue.then(() => processHardwareEvent(event))
Chain(queue, event) == Append(queue, event)

\* events chained and not yet started, over all connections
RECURSIVE Backlog(_)
Backlog(cs) ==
    IF cs = {} THEN 0
    ELSE LET c == CHOOSE x \in cs : TRUE
         IN  Len(inboundEventQueue[c]) + Backlog(cs \ {c})

\* a message arrives on the socket of c; it has a listener only when the
\* handler registered one (cap bounds the events waiting to be processed)
OnMessage(c, raw, cap) ==
    /\ ~MicrotaskPending
    /\ \/ conn[c].stage = "attached" /\ readyState(socket[c]) = "OPEN"
       \/ conn[c].stage = "rejected"
    /\ IF ~MessageHandlerRegistered(conn[c].canSendEvents)
       THEN /\ out' = NoOut
            /\ last' = Did("message", c, "no listener", raw)
            /\ UNCHANGED inboundEventQueue
       ELSE IF conn[c].isClosed
       THEN /\ out' = NoOut
            /\ last' = Did("message", c, "closed", raw)
            /\ UNCHANGED inboundEventQueue
       ELSE IF ~ParsesToEvent(raw)
       THEN /\ out' = [NoOut EXCEPT ![c] =
                         IF Delivers(socket[c])
                         THEN ErrorMsg("Invalid hardware event payload")
                         ELSE NoMsg]
            /\ last' = Did("message", c, "invalid", raw)
            /\ UNCHANGED inboundEventQueue
       ELSE /\ Backlog(Conns) < cap
            /\ inboundEventQueue' =
                 [inboundEventQueue EXCEPT ![c] = Chain(@, ParsedEvent(raw))]
            /\ out' = NoOut
            /\ last' = Did("message", c, "chained", raw)
    /\ UNCHANGED <<sessionVars, envVars, pluginVars, demoTranscriptionTimeouts,
                   lastTranscription, clients, socket, conn, run, deadManFired>>

\* the dead-man switch of the close handler fires
DeadMan(left, m) == left = {} /\ m.data.isClutchEngaged

\* connection.on('close')
OnClose(c) ==
    LET left == clients \ {c}
        deadMan == DeadMan(left, machine)
        deadPersona == uiBridge.activePersona
    IN  /\ ~MicrotaskPending
        /\ conn[c].stage = "attached"
        /\ socket' = [socket EXCEPT ![c] = "CLOSED"]
        /\ conn' = [conn EXCEPT ![c].stage = "closed", ![c].isClosed = TRUE]
        /\ clients' = left
        /\ IF deadMan
           THEN /\ machine' = send(machine, [type |-> "CLUTCH_RELEASE"])
                /\ demoTranscriptionTimeouts' =
                     clearDemoTranscription(demoTranscriptionTimeouts)
                /\ voicePipeline' = voiceRelease(voicePipeline)
                /\ uiBridge' = bridgeRelease(uiBridge,
                     [type |-> "RELEASE", timestamp |-> 1,
                      agentPersona |-> deadPersona])
           ELSE UNCHANGED <<machine, demoTranscriptionTimeouts, voicePipeline,
                            uiBridge>>
        /\ out' = NoOut
        /\ last' = Did("close", c, IF deadMan THEN "dead-man" ELSE "none",
                       Undefined)
        /\ deadManFired' = (deadManFired \/ deadMan)
        /\ UNCHANGED <<kernelMixer, envVars, pluginVars, lastTranscription,
                       inboundEventQueue, run>>

\* the peer goes away, or the socket starts to fail, before 'close' is emitted
SocketFails(c, how) ==
    /\ ~MicrotaskPending
    /\ conn[c].stage = "attached"
    /\ socket[c] = "OPEN"
    /\ socket' = [socket EXCEPT ![c] = how]
    /\ out' = NoOut
    /\ last' = Did("socket", c, how, Undefined)
    /\ UNCHANGED <<sessionVars, envVars, pluginVars, demoTranscriptionTimeouts,
                   lastTranscription, clients, conn, inboundEventQueue, run,
                   deadManFired>>

\* ------------------------------------------------- processHardwareEvent

\* a processor without the early return: what C10 must tell apart
NeverNoMapping(synapseType) == FALSE

\* if (!synapseType) return
NoMapping(synapseType) == synapseType = Undefined

\* the closing broadcast of processHardwareEvent, sent from the state the
\* step leaves
ProcessBroadcast(synapseType, m, k, b) ==
    /\ clients' = BroadcastKeeps(clients, socket)
    /\ out' = BroadcastOut(clients, socket,
                StateUpdate(synapseType, m.stateValue, m, k, b, lastTranscription))

\* the event the chain of c runs next
NextEvent(queue) == Head(queue)

\* the .then callback of the chain runs: processHardwareEvent(event) from its
\* first line to its first await, or to its end when it has none
StartRun(c) ==
    LET event == NextEvent(inboundEventQueue[c])
        synapseType == mapHardwareEventToSynapseType(event)
        persona == uiBridge.activePersona
        delta == NumberOrZero(event)
        switchTo == keypadToPersona(NumberOrZero(event))
        suspended == [pc |-> "await voicePipeline", event |-> event,
                      synapseType |-> synapseType, persona |-> persona]
    IN  /\ CanStart(c)
        /\ inboundEventQueue' = [inboundEventQueue EXCEPT ![c] = Tail(@)]
        /\ IF NoMapping(synapseType)
           THEN /\ out' = NoOut
                /\ last' = Did("process", c, "dropped", event)
                /\ UNCHANGED <<sessionVars, demoTranscriptionTimeouts,
                               clients, run>>
           ELSE
             CASE synapseType = "SYNAPSE_CLUTCH_ENGAGE" ->
                  /\ machine' = send(machine, [type |-> "CLUTCH_ENGAGE",
                                               persona |-> persona])
                  /\ voicePipeline' = voiceEngage(voicePipeline)
                  /\ run' = [run EXCEPT ![c] = suspended]
                  /\ out' = NoOut
                  /\ last' = Did("process", c, "awaiting", event)
                  /\ UNCHANGED <<kernelMixer, uiBridge,
                                 demoTranscriptionTimeouts, clients>>
             [] synapseType = "SYNAPSE_CLUTCH_RELEASE" ->
                  /\ machine' = send(machine, [type |-> "CLUTCH_RELEASE"])
                  /\ demoTranscriptionTimeouts' =
                       clearDemoTranscription(demoTranscriptionTimeouts)
                  /\ voicePipeline' = voiceRelease(voicePipeline)
                  /\ run' = [run EXCEPT ![c] = suspended]
                  /\ out' = NoOut
                  /\ last' = Did("process", c, "awaiting", event)
                  /\ UNCHANGED <<kernelMixer, uiBridge, clients>>
             [] synapseType = "SYNAPSE_DIAL_COMPUTE_MIX" ->
                  /\ kernelMixer' = setComputeMix(kernelMixer,
                       dialDeltaToComputeWeight(kernelMixer.computeMixWeight,
                                                delta))
                  /\ machine' = send(machine, [type |-> "DIAL_COMPUTE",
                                               delta |-> delta])
                  /\ ProcessBroadcast(synapseType, machine', kernelMixer',
                                      uiBridge)
                  /\ last' = Did("process", c, "done", event)
                  /\ UNCHANGED <<voicePipeline, uiBridge,
                                 demoTranscriptionTimeouts, run>>
             [] synapseType = "SYNAPSE_DIAL_CONTEXT_WINDOW" ->
                  /\ kernelMixer' = setContextWindow(kernelMixer,
                       dialDeltaToContextTokens(kernelMixer.contextWindowTokens,
                                                delta))
                  /\ ProcessBroadcast(synapseType, machine, kernelMixer',
                                      uiBridge)
                  /\ last' = Did("process", c, "done", event)
                  /\ UNCHANGED <<machine, voicePipeline, uiBridge,
                                 demoTranscriptionTimeouts, run>>
             [] synapseType = "SYNAPSE_KEYPAD_CONTEXT_SWITCH" ->
                  /\ IF switchTo # Undefined
                     THEN /\ machine' = send(machine, [type |-> "KEYPAD_SWITCH",
                                                       persona |-> switchTo])
                          /\ uiBridge' = switchPersona(uiBridge, switchTo)
                     ELSE UNCHANGED <<machine, uiBridge>>
                  /\ ProcessBroadcast(synapseType, machine', kernelMixer,
                                      uiBridge')
                  /\ last' = Did("process", c, "done", event)
                  /\ UNCHANGED <<kernelMixer, voicePipeline,
                                 demoTranscriptionTimeouts, run>>
             [] OTHER ->
                  \* no case of the switch matches
                  /\ ProcessBroadcast(synapseType, machine, kernelMixer,
                                      uiBridge)
                  /\ last' = Did("process", c, "done", event)
                  /\ UNCHANGED <<sessionVars, demoTranscriptionTimeouts, run>>
        /\ UNCHANGED <<envVars, pluginVars, lastTranscription, socket, conn, deadManFired>>

\* a run that goes from the voice pipeline's await straight to its end,
\* never calling the bridge: what C23 must tell apart
ResumeSkipsBridge(c) ==
    LET r == run[c]
    IN  /\ ~MicrotaskPending
        /\ r # IdleRun
        /\ demoTranscriptionTimeouts' =
             IF r.synapseType = "SYNAPSE_CLUTCH_ENGAGE"
             THEN scheduleDemoTranscription(DEMO_TRANSCRIPTION_ENABLED,
                                            demoTranscriptionTimeouts)
             ELSE demoTranscriptionTimeouts
        /\ ProcessBroadcast(r.synapseType, machine, kernelMixer, uiBridge)
        /\ run' = [run EXCEPT ![c] = IdleRun]
        /\ last' = Did("resume", c, "done", Undefined)
        /\ UNCHANGED <<machine, kernelMixer, voicePipeline, uiBridge, envVars, pluginVars,
                       lastTranscription, socket, conn, inboundEventQueue,
                       deadManFired>>

\* an awaited adapter promise has settled: processHardwareEvent goes on to its
\* next await, or to its end
Resume(c) ==
    LET r == run[c]
        clutchEvent == [type |-> IF r.synapseType = "SYNAPSE_CLUTCH_ENGAGE"
                                 THEN "ENGAGE" ELSE "RELEASE",
                        timestamp |-> r.event.timestamp,
                        agentPersona |-> r.persona]
    IN  /\ ~MicrotaskPending
        /\ r # IdleRun
        /\ CASE r.pc = "await voicePipeline" ->
                  /\ uiBridge' = IF r.synapseType = "SYNAPSE_CLUTCH_ENGAGE"
                                 THEN bridgeEngage(uiBridge, clutchEvent)
                                 ELSE bridgeRelease(uiBridge, clutchEvent)
                  /\ run' = [run EXCEPT ![c].pc = "await uiBridge"]
                  /\ out' = NoOut
                  /\ last' = Did("resume", c, "awaiting", Undefined)
                  /\ UNCHANGED <<demoTranscriptionTimeouts, clients>>
             [] r.pc = "await uiBridge" ->
                  /\ demoTranscriptionTimeouts' =
                       IF r.synapseType = "SYNAPSE_CLUTCH_ENGAGE"
                       THEN scheduleDemoTranscription(DEMO_TRANSCRIPTION_ENABLED,
                                                      demoTranscriptionTimeouts)
                       ELSE demoTranscriptionTimeouts
                  /\ ProcessBroadcast(r.synapseType, machine, kernelMixer,
                                      uiBridge)
                  /\ run' = [run EXCEPT ![c] = IdleRun]
                  /\ last' = Did("resume", c, "done", Undefined)
                  /\ UNCHANGED uiBridge
        /\ UNCHANGED <<machine, kernelMixer, voicePipeline, envVars, pluginVars,
                       lastTranscription, socket, conn, inboundEventQueue,
                       deadManFired>>

\* ------------------------------------------------- demo transcription timers

\* the timers of one scheduleDemoTranscription fire in the order of their delays
NextTimeout(timeouts) ==
    IF "partial" \in timeouts THEN "partial"
    ELSE IF "final" \in timeouts THEN "final" ELSE "ready"

\* a setTimeout callback of scheduleDemoTranscription runs; the first two go
\* through voicePipeline.simulateTranscription to the onTranscription handler
TimeoutFires ==
    LET t == NextTimeout(demoTranscriptionTimeouts)
    IN  /\ ~MicrotaskPending
        /\ demoTranscriptionTimeouts # {}
        /\ demoTranscriptionTimeouts' = demoTranscriptionTimeouts \ {t}
        /\ IF t = "ready"
           THEN /\ machine' = IF machine.stateValue = "CLUTCH_ENGAGED"
                              THEN send(machine, [type |-> "VOICE_READY"])
                              ELSE machine
                /\ out' = NoOut
                /\ UNCHANGED <<lastTranscription, clients>>
           ELSE /\ lastTranscription' = t
                /\ clients' = BroadcastKeeps(clients, socket)
                /\ out' = BroadcastOut(clients, socket,
                            StateUpdate(Undefined, Undefined, machine,
                                        kernelMixer, uiBridge, t))
                /\ UNCHANGED machine
        /\ last' = Did("timeout", 0, t, Undefined)
        /\ UNCHANGED <<kernelMixer, voicePipeline, uiBridge, envVars, pluginVars, socket,
                       conn, inboundEventQueue, run, deadManFired>>

\* ------------------------------------------------------------------- Next

\* one step of the daemon serving the connections cs, whose clients send
\* the messages ms, with at most cap events waiting to be processed
Step(cs, ms, cap) ==
    \/ \E c \in cs, r \in RoleParams, t \in TokenParams : Connect(c, r, t)
    \/ \E c \in cs, raw \in ms : OnMessage(c, raw, cap)
    \/ \E c \in cs : OnClose(c)
    \/ \E c \in cs : StartRun(c)
    \/ \E c \in cs : Resume(c)
    \/ TimeoutFires

Next == Step(Conns, CoreMessages, MaxQueue)

Spec == Init /\ [][Next]_vars

\* ---------------------------------------------- one connection at a time

\* what the client of SoloSpec sends: as in Spec, with a persona key, a
\* dial, a second timestamp and text that is not JSON
SoloMessages ==
    {ClutchPress(1), ClutchPress(2), ClutchRelease, Keypad(2), DialA(10),
     Unmapped, NotJson}

SoloNext == Step({1}, SoloMessages, MaxSoloQueue)

SoloSpec == Init /\ [][SoloNext]_vars

\* ------------------------------------------------ the state machine alone

\* dial deltas sent to the machine: single ticks and the extremes of its tests
MachineDeltas == {-200, -3, 2, 100}

MachineEvents ==
    {[type |-> "CLUTCH_ENGAGE", persona |-> p] : p \in Personas \cup {Undefined}}
      \cup {[type |-> t] : t \in {"CLUTCH_RELEASE", "VOICE_READY", "AGENT_READY"}}
      \cup {[type |-> "DIAL_COMPUTE", delta |-> d] : d \in MachineDeltas}
      \cup {[type |-> "DIAL_CONTEXT", delta |-> d] : d \in MachineDeltas}
      \cup {[type |-> "KEYPAD_SWITCH", persona |-> p] : p \in Personas}

\* machine.send(event), called on a machine of its own as the unit tests do;
\* the phase it returns is the phase it leaves
MachineSend(event) ==
    /\ machine' = send(machine, event)
    /\ last' = [op |-> "send", from |-> machine.stateValue,
                result |-> machine'.stateValue, arg |-> event]
    /\ UNCHANGED <<kernelMixer, voicePipeline, uiBridge, envVars, pluginVars,
                   demoTranscriptionTimeouts, lastTranscription, clients,
                   socket, conn, inboundEventQueue, run, out, deadManFired>>

MachineNext == \E event \in MachineEvents : MachineSend(event)

MachineSpec == Init /\ [][MachineNext]_vars

\* ------------------------------------------------ the dials of one client

\* what the client of MixSpec sends: the clutch and the compute dial
MixMessages == {ClutchPress(1), ClutchRelease, DialA(-3), DialA(100)}

MixNext == Step({1}, MixMessages, MaxQueue)

MixSpec == Init /\ [][MixNext]_vars

\* what the client of ContextSpec sends: the clutch press and the context
\* dial, a tick up, five down, seventeen up
ContextMessages == {ClutchPress(1), DialB(1), DialB(-5), DialB(17)}

ContextNext == Step({1}, ContextMessages, MaxQueue)

ContextSpec == Init /\ [][ContextNext]_vars

\* ------------------------------------------------ dial deltas in a row

\* the DIAL_COMPUTE deltas sent to the machine so far, in the order sent
DialsSent == IF last.op = "dials" THEN last.arg ELSE <<>>

\* machine.send({type: 'DIAL_COMPUTE', delta}) on a fresh machine, up to
\* MaxDials times in a row
DialSend(delta) ==
    /\ Len(DialsSent) < MaxDials
    /\ machine' = send(machine, [type |-> "DIAL_COMPUTE", delta |-> delta])
    /\ last' = [op |-> "dials", arg |-> Append(DialsSent, delta)]
    /\ UNCHANGED <<kernelMixer, voicePipeline, uiBridge, envVars, pluginVars,
                   demoTranscriptionTimeouts, lastTranscription, clients,
                   socket, conn, inboundEventQueue, run, out, deadManFired>>

DialNext == \E delta \in MachineDeltas : DialSend(delta)

DialSpec == Init /\ [][DialNext]_vars

\* ------------------------------------------------- failing collaborators

\* a failure that takes the machine back to IDLE: what C34 must tell apart
AdapterRejectsRollsBack(c) ==
    /\ ~MicrotaskPending
    /\ run[c] # IdleRun
    /\ machine' = releaseClutch(machine)
    /\ run' = [run EXCEPT ![c] = IdleRun]
    /\ out' = [NoOut EXCEPT ![c] =
                 IF Delivers(socket[c])
                 THEN ErrorMsg("Failed to process hardware event")
                 ELSE NoMsg]
    /\ last' = Did("reject", c, run[c].pc, Undefined)
    /\ UNCHANGED <<kernelMixer, voicePipeline, uiBridge, envVars, pluginVars,
                   demoTranscriptionTimeouts, lastTranscription, clients,
                   socket, conn, inboundEventQueue, deadManFired>>

\* The promise an adapter call returned rejects (the adapter interfaces only
\* promise Promise<void>): the await in processHardwareEvent throws, nothing
\* in processHardwareEvent catches it, the call ends there and the .catch of
\* the chain tells the connection the event came from.
AdapterRejects(c) ==
    /\ ~MicrotaskPending
    /\ run[c] # IdleRun
    /\ run' = [run EXCEPT ![c] = IdleRun]
    /\ out' = [NoOut EXCEPT ![c] =
                 IF Delivers(socket[c])
                 THEN ErrorMsg("Failed to process hardware event")
                 ELSE NoMsg]
    /\ last' = Did("reject", c, run[c].pc, Undefined)
    /\ UNCHANGED <<sessionVars, envVars, pluginVars, demoTranscriptionTimeouts,
                   lastTranscription, clients, socket, conn, inboundEventQueue,
                   deadManFired>>

\* how a socket fails: its send starts to throw, or its peer goes away
SocketFailures == {"BROKEN", "CLOSING"}

\* what the clients of FaultSpec send
FaultMessages == {ClutchPress(1), ClutchRelease}

FaultNext ==
    \/ Step(Conns, FaultMessages, MaxQueue)
    \/ \E c \in Conns, how \in SocketFailures : SocketFails(c, how)
    \/ \E c \in Conns : AdapterRejects(c)

FaultSpec == Init /\ [][FaultNext]_vars

\* one client with failing sockets and adapters, and two events waiting at
\* most
SoloFaultNext ==
    \/ Step({1}, FaultMessages, MaxSoloQueue)
    \/ \E how \in SocketFailures : SocketFails(1, how)
    \/ AdapterRejects(1)

\* with the scheduling the event loop gives: a .then callback that is ready
\* runs, and every adapter promise settles, one way or the other, and its
\* continuation runs
FairSoloFaultSpec ==
    /\ Init /\ [][SoloFaultNext]_vars
    /\ WF_vars(StartRun(1))
    /\ SF_vars(Resume(1) \/ AdapterRejects(1))

\* ------------------------------------------------ the plugin and its sockets

\* what the Logitech SDK hands the plugin: two events that pass the schema and
\* two that fail it
PluginEvents ==
    {ParsedEvent(raw) : raw \in {ClutchPress(1), DialA(2), BadDevice,
                                 BadTimestamp}}

\* what the daemon's side of a socket sends the plugin
PluginInbound ==
    {[json |-> TRUE, type |-> "STATE_UPDATE", state |-> InitialMachine.data],
     [json |-> TRUE, type |-> "STATE_UPDATE", state |-> Null],
     [json |-> TRUE, type |-> "ERROR", state |-> Null],
     [json |-> FALSE, type |-> "", state |-> Null]}

PluginSockets == 1..Len(pluginSockets)

\* plugin.connect(), called by the host (cap bounds the sockets made)
PluginConnect(cap) ==
    LET after == connect(plugin, pluginSockets)
    IN  /\ plugin.destroyed \/ Len(pluginSockets) < cap
        /\ plugin' = after.plugin
        /\ pluginSockets' = after.sockets
        /\ last' = Did("connect()", plugin'.ws,
                       IF plugin.destroyed THEN "none" ELSE "created", Undefined)
        /\ UNCHANGED daemonVars

\* socket ws opens and fires onopen
SocketOpens(ws) ==
    /\ pluginSockets[ws].readyState = "CONNECTING"
    /\ pluginSockets' = [pluginSockets EXCEPT ![ws].readyState = "OPEN"]
    /\ plugin' = onopen(plugin, ws)
    /\ last' = Did("onopen", ws, "none", Undefined)
    /\ UNCHANGED daemonVars

\* a message arrives on socket ws
SocketMessage(ws, msg) ==
    /\ pluginSockets[ws].readyState = "OPEN"
    /\ plugin' = onmessage(plugin, ws, msg)
    /\ last' = Did("onmessage", ws, "none", msg)
    /\ UNCHANGED <<pluginSockets, daemonVars>>

\* socket ws fires onerror; its close event follows later
SocketErrors(ws) ==
    /\ pluginSockets[ws].readyState # "CLOSED"
    /\ plugin' = onerror(plugin, ws)
    /\ last' = Did("onerror", ws, "none", Undefined)
    /\ UNCHANGED <<pluginSockets, daemonVars>>

\* socket ws is closed, by the peer, a failure or an earlier ws.close(), and
\* fires onclose
SocketCloses(ws) ==
    /\ pluginSockets[ws].readyState # "CLOSED"
    /\ pluginSockets' = [pluginSockets EXCEPT ![ws].readyState = "CLOSED"]
    /\ plugin' = onclose(plugin, ws)
    /\ last' = Did("onclose", ws,
                   IF plugin'.timers > plugin.timers
                   THEN "scheduled" ELSE "none", Undefined)
    /\ UNCHANGED daemonVars

\* the callback of the reconnect timer
ReconnectTimerFires(cap) ==
    LET cleared == [plugin EXCEPT !.reconnectTimer = "null", !.timers = @ - 1]
        nextAttempts == plugin.state.reconnectAttempts + 1
        counted == [cleared EXCEPT !.state.reconnectAttempts = nextAttempts]
        after == connect(counted, pluginSockets)
    IN  /\ plugin.timers > 0
        /\ Len(pluginSockets) < cap
        /\ IF plugin.destroyed \/ nextAttempts > MAX_RECONNECT_ATTEMPTS
           THEN /\ plugin' = cleared
                /\ UNCHANGED pluginSockets
           ELSE /\ plugin' = after.plugin
                /\ pluginSockets' = after.sockets
        /\ last' = Did("reconnect", plugin'.ws, "none", Undefined)
        /\ UNCHANGED daemonVars

\* plugin.sendHardwareEvent(event), called by the host; it never throws
sendHardwareEvent(event) ==
    /\ IF Forwards(plugin, event)
       THEN IF wsSendThrows(pluginSockets, plugin.ws)
            THEN /\ last' = Did("sendHardwareEvent", plugin.ws, "caught", event)
                 /\ UNCHANGED pluginSockets
            ELSE /\ last' = Did("sendHardwareEvent", plugin.ws, "sent", event)
                 /\ pluginSockets' = wsSend(pluginSockets, plugin.ws,
                                            JSONstringify(event))
       ELSE /\ last' = Did("sendHardwareEvent", plugin.ws, "nothing", event)
            /\ UNCHANGED pluginSockets
    /\ UNCHANGED <<plugin, daemonVars>>

\* plugin.destroy(), called by the host
PluginDestroy ==
    LET after == destroy(plugin, pluginSockets)
    IN  /\ plugin' = after.plugin
        /\ pluginSockets' = after.sockets
        /\ last' = Did("destroy()", plugin.ws, "none", Undefined)
        /\ UNCHANGED daemonVars

PluginNext ==
    \/ PluginConnect(MaxSockets)
    \/ \E ws \in PluginSockets : SocketOpens(ws)
    \/ \E ws \in PluginSockets, msg \in PluginInbound : SocketMessage(ws, msg)
    \/ \E ws \in PluginSockets : SocketErrors(ws)
    \/ \E ws \in PluginSockets : SocketCloses(ws)
    \/ ReconnectTimerFires(MaxSockets)
    \/ \E event \in PluginEvents : sendHardwareEvent(event)
    \/ PluginDestroy

PluginSpec == Init /\ [][PluginNext]_vars

\* the plugin's connections alone, with sockets enough for the reconnect
\* attempts to run out: connect(), destroy(), the timer and the sockets'
\* open, error and close events
ReconnectNext ==
    \/ PluginConnect(MaxReconnectSockets)
    \/ \E ws \in PluginSockets : SocketOpens(ws)
    \/ \E ws \in PluginSockets : SocketErrors(ws)
    \/ \E ws \in PluginSockets : SocketCloses(ws)
    \/ ReconnectTimerFires(MaxReconnectSockets)
    \/ PluginDestroy

ReconnectSpec == Init /\ [][ReconnectNext]_vars

\* ------------------------------------------------ the mapping alone

\* every hardware event the interface allows, with a value of each kind
HardwareEvents ==
    {ParsedEvent(Raw(1, dev, comp, ty, val)) :
        dev \in DeviceIds, comp \in ComponentIds, ty \in EventTypes,
        val \in {NoValue, Num(1), Num(2), Str}}

\* mapHardwareEventToSynapseType(event), called on its own as the unit tests do
MapEvent(event) ==
    /\ last' = Did("map", 0, mapHardwareEventToSynapseType(event), event)
    /\ UNCHANGED <<daemonVars, pluginVars>>

MapNext == \E event \in HardwareEvents : MapEvent(event)

MapSpec == Init /\ [][MapNext]_vars

\* ------------------------------------------------ the keypad of one client

KeypadTap(v) == Raw(1, "MX_CREATIVE_CONSOLE", "KEYPAD", "TAP", Num(v))
KeypadText == Raw(1, "MX_CREATIVE_CONSOLE", "KEYPAD", "PRESS", Str)
KeypadBare == Raw(1, "MX_CREATIVE_CONSOLE", "KEYPAD", "PRESS", NoValue)

\* what the client of KeypadSpec sends: the clutch press and the keypad, with
\* the three keys that have a persona, two that have none, a string and no
\* value at all
KeypadMessages ==
    {ClutchPress(1), Keypad(1), Keypad(2), KeypadTap(3), Keypad(4), Keypad(0),
     KeypadText, KeypadBare}

KeypadNext == Step({1}, KeypadMessages, MaxQueue)

KeypadSpec == Init /\ [][KeypadNext]_vars

TypeOK ==
    /\ machine.stateValue \in Phases
    /\ clients \subseteq Conns

\* ------------------------------------------------------------------ claims

\* every accepted connection has had its close handler run
AllClosed == \A c \in Conns : conn[c].stage # "attached"

\* no processHardwareEvent call is running or waiting to run
Quiescent ==
    \A c \in Conns : run[c] = IdleRun /\ inboundEventQueue[c] = <<>>

\* C1: whenever no client is connected and the close handler of the last one
\* has run, the phase is IDLE and the clutch is not engaged.
C1_DeadManGuarantee ==
    (clients = {} /\ AllClosed) =>
        (machine.stateValue = "IDLE" /\ ~machine.data.isClutchEngaged)

\* C2: after the dead-man switch has fired, and until a client connects, once
\* no event is in flight the mouse owns the OS control, the voice pipeline is
\* IDLE and the phase is IDLE.
C2_ControlBackAfterDeadMan ==
    (deadManFired /\ Quiescent) =>
        /\ uiBridge.owner = "PHYSICAL_MOUSE"
        /\ voicePipeline = "IDLE"
        /\ machine.stateValue = "IDLE"

\* C3: send(CLUTCH_RELEASE) in CLUTCH_ENGAGED, VOICE_ACTIVE or AGENT_EXECUTING
\* leaves, in that one step, phase IDLE with isClutchEngaged false and
\* voicePipelineStatus IDLE, and returns IDLE; in IDLE it changes nothing.
C3_ReleaseFromAnyPhase ==
    [][(last'.op = "send" /\ last'.arg.type = "CLUTCH_RELEASE") =>
          /\ last'.result = "IDLE"
          /\ IF machine.stateValue = "IDLE"
             THEN machine' = machine
             ELSE /\ machine'.stateValue = "IDLE"
                  /\ machine'.data.isClutchEngaged = FALSE
                  /\ machine'.data.voicePipelineStatus = "IDLE"]_vars

\* a release has been sent to a machine that was executing the agent
C3_Witness ==
    /\ last.op = "send"
    /\ last.arg.type = "CLUTCH_RELEASE"
    /\ last.from = "AGENT_EXECUTING"
    /\ machine.stateValue = "IDLE"

\* C4: the processHardwareEvent runs of different connections never overlap:
\* while one is between its first and its last step, no other has begun.
C4_GlobalSerialization ==
    \A c1, c2 \in Conns :
        (run[c1] # IdleRun /\ run[c2] # IdleRun) => c1 = c2

\* C5: the events a connection has accepted are processed in the order of
\* their arrival (a new one is chained behind those waiting, the one started
\* is the oldest waiting), and one is started only when the processing of the
\* one before it has ended.
C5_PerConnectionOrder ==
    [][\A c \in Conns :
          /\ (last'.op = "message" /\ last'.conn = c /\ last'.result = "chained")
               => inboundEventQueue'[c] =
                    inboundEventQueue[c] \o <<ParsedEvent(last'.arg)>>
          /\ (last'.op = "process" /\ last'.conn = c)
               => /\ run[c] = IdleRun
                  /\ inboundEventQueue[c] # <<>>
                  /\ last'.arg = inboundEventQueue[c][1]
                  /\ inboundEventQueue'[c] =
                       SubSeq(inboundEventQueue[c], 2, Len(inboundEventQueue[c]))
          /\ (last'.op # "process" \/ last'.conn # c)
               => \/ Len(inboundEventQueue'[c]) >= Len(inboundEventQueue[c])
                  \/ conn'[c].stage # conn[c].stage]_vars

\* an event has been started while a later one of its connection waits
C5_Witness ==
    /\ last.op = "process"
    /\ last.result = "awaiting"
    /\ inboundEventQueue[last.conn] # <<>>

\* the (deviceId, componentId, eventType) combinations of the mapping table
MappingTable ==
    {<<"MX_MASTER_4", "ACTIONS_RING", "PRESS">>,
     <<"MX_MASTER_4", "ACTIONS_RING", "RELEASE">>,
     <<"MX_CREATIVE_CONSOLE", "DIAL_A", "ROTATE">>,
     <<"MX_CREATIVE_CONSOLE", "DIAL_B", "ROTATE">>,
     <<"MX_CREATIVE_CONSOLE", "KEYPAD", "PRESS">>,
     <<"MX_CREATIVE_CONSOLE", "KEYPAD", "TAP">>}

\* the payload is a hardware event as the external interface defines it
WellFormed(raw) ==
    /\ raw.json
    /\ raw.timestamp \in Nat \ {0}
    /\ raw.deviceId \in {"MX_MASTER_4", "MX_CREATIVE_CONSOLE"}
    /\ raw.componentId \in {"ACTIONS_RING", "DIAL_A", "DIAL_B", "KEYPAD"}
    /\ raw.eventType \in {"PRESS", "RELEASE", "ROTATE", "TAP"}

\* C6: a connection that asks for the plugin role without the configured token
\* gets an ERROR and is closed, is not added to the client set, and leaves the
\* session, kernel and OS-control state as they were; as long as it is there
\* it gets no STATE_UPDATE and nothing it sends is chained or processed.
C6_UnauthorizedController ==
    [][\A c \in Conns :
          /\ (/\ last'.op = "connect"
              /\ last'.conn = c
              /\ last'.arg.role = "plugin"
              /\ configuredToken # ""
              /\ last'.arg.token # configuredToken)
             => /\ out' = [NoOut EXCEPT ![c] = ErrorMsg("Invalid token")]
                /\ readyState(socket'[c]) # "OPEN"
                /\ conn'[c].stage = "rejected"
                /\ clients' = clients
                /\ sessionVars' = sessionVars
          /\ conn'[c].stage = "rejected"
             => /\ c \notin clients'
                /\ out'[c].type # "STATE_UPDATE"
                /\ inboundEventQueue'[c] = <<>>
                /\ run'[c] = IdleRun]_vars

\* a plugin with a wrong token has been turned away while another client is
\* connected and the clutch is engaged
C6_Witness ==
    /\ last.op = "connect"
    /\ last.arg.role = "plugin"
    /\ last.arg.token = "wrong"
    /\ conn[last.conn].stage = "rejected"
    /\ clients # {}
    /\ machine.data.isClutchEngaged

\* c is connected in the observer role: its handler ran with another role
\* than plugin
Observer(c) == conn[c].stage = "attached" /\ conn[c].role # "plugin"

\* C7: whatever an observer sends, nothing of it is chained or processed, the
\* machine, kernel and OS-control state stay as they are, nothing is sent to
\* any client, and the observer stays in the client set.
C7_ObserverCannotSend ==
    [][\A c \in Conns :
          /\ (last'.op = "message" /\ last'.conn = c /\ Observer(c))
             => /\ sessionVars' = sessionVars
                /\ inboundEventQueue' = inboundEventQueue
                /\ run' = run
                /\ demoTranscriptionTimeouts' = demoTranscriptionTimeouts
                /\ out' = NoOut
                /\ clients' = clients
          /\ (last'.op = "process" /\ last'.conn = c) => ~Observer(c)]_vars

\* an observer has sent a well-formed clutch press while a controller is
\* connected too
C7_Witness ==
    /\ last.op = "message"
    /\ Observer(last.conn)
    /\ last.arg = ClutchPress(1)
    /\ last.conn \in clients
    /\ \E c \in clients : conn[c].canSendEvents

\* C8 as stated: an observer that sends a message gets an ERROR and stays
\* connected as an observer.
C8_ObserverGetsError ==
    [][\A c \in Conns :
          (last'.op = "message" /\ last'.conn = c /\ Observer(c))
          => /\ out'[c].type = "ERROR"
             /\ conn'[c] = conn[c]
             /\ socket'[c] = socket[c]]_vars

\* C8 as the code has it: an observer that sends a message gets no reply and
\* stays connected as an observer, its socket open.
C8_ObserverGetsNoReply ==
    [][\A c \in Conns :
          (last'.op = "message" /\ last'.conn = c /\ Observer(c))
          => /\ out'[c] = NoMsg
             /\ conn'[c] = conn[c]
             /\ socket'[c] = socket[c]
             /\ (c \in clients) = (c \in clients')]_vars

\* an observer has sent a malformed payload and got nothing back
C8_Witness ==
    /\ last.op = "message"
    /\ Observer(last.conn)
    /\ ~WellFormed(last.arg)
    /\ out[last.conn] = NoMsg

\* c is connected as a controller and its socket is open
Controller(c) ==
    conn[c].stage = "attached" /\ conn[c].canSendEvents /\ socket[c] = "OPEN"

\* C9: a malformed payload from a controller brings an ERROR to that
\* connection and to no other, changes no session, kernel or OS-control
\* state, and leaves the connection as it was: registered, open, its chain of
\* events untouched.
C9_MalformedPayload ==
    [][\A c \in Conns :
          (/\ last'.op = "message"
           /\ last'.conn = c
           /\ Controller(c)
           /\ ~WellFormed(last'.arg))
          => /\ out'[c].type = "ERROR"
             /\ \A d \in Conns \ {c} : out'[d] = NoMsg
             /\ sessionVars' = sessionVars
             /\ clients' = clients
             /\ conn' = conn
             /\ socket' = socket
             /\ inboundEventQueue' = inboundEventQueue
             /\ run' = run]_vars

\* a controller has sent a malformed payload while a second client is
\* connected and the clutch is engaged
C9_Witness ==
    /\ last.op = "message"
    /\ Controller(last.conn)
    /\ ~WellFormed(last.arg)
    /\ out[last.conn].type = "ERROR"
    /\ Cardinality(clients) = 2
    /\ machine.data.isClutchEngaged

\* C10: processing a valid event that has no entry in the mapping table
\* changes no machine, kernel, voice or bridge state, sets no timer and sends
\* nothing to any client.
C10_UnmappedDropped ==
    [][\A c \in Conns :
          (/\ last'.op = "process"
           /\ last'.conn = c
           /\ <<last'.arg.deviceId, last'.arg.componentId, last'.arg.eventType>>
                \notin MappingTable)
          => /\ sessionVars' = sessionVars
             /\ demoTranscriptionTimeouts' = demoTranscriptionTimeouts
             /\ lastTranscription' = lastTranscription
             /\ clients' = clients
             /\ out' = NoOut
             /\ run'[c] = IdleRun]_vars

\* an event without mapping has been processed while clients are connected
C10_Witness ==
    /\ last.op = "process"
    /\ last.arg = ParsedEvent(Unmapped)
    /\ last.result = "dropped"
    /\ Cardinality(clients) = 2

\* C11: when an adapter call of an event's processing has rejected, every
\* connected client with an open socket has been sent the STATE_UPDATE of
\* that event, carrying the phase the machine is left in.
C11_BroadcastDespiteAdapterFailure ==
    last.op = "reject" =>
        \A d \in clients :
            Delivers(socket[d]) =>
               /\ out[d].type = "STATE_UPDATE"
               /\ out[d].machineState = machine.stateValue

\* the last step ran broadcast(payload)
Broadcasted ==
    \/ last.op \in {"process", "resume"} /\ last.result = "done"
    \/ last.op = "timeout" /\ last.result \in {"partial", "final"}

\* C12: after a broadcast every connection whose socket is open has got the
\* message and is still a client, every client whose socket was found not
\* open or whose send threw is out of the client set and got nothing, and no
\* error came of it.
C12_BroadcastIsolation ==
    Broadcasted =>
        \A d \in Conns :
            /\ (conn[d].stage = "attached" /\ socket[d] = "OPEN")
                 => (d \in clients /\ out[d].type = "STATE_UPDATE")
            /\ d \in clients => socket[d] = "OPEN"
            /\ socket[d] # "OPEN" => out[d] = NoMsg
            /\ out[d].type # "ERROR"

\* a broadcast has reached one client and dropped another whose send throws
C12_Witness ==
    /\ Broadcasted
    /\ \E d1, d2 \in Conns :
          /\ conn[d1].stage = "attached"
          /\ socket[d1] = "BROKEN"
          /\ d1 \notin clients
          /\ out[d2].type = "STATE_UPDATE"

\* the last step accepted a connection: an observer, or a plugin with the
\* configured token
Accepted ==
    /\ last.op = "connect"
    /\ last.arg.role # "plugin" \/ last.arg.token = configuredToken

\* C13: the step that accepts a connection sends it a STATE_UPDATE with the
\* machine phase, session state, kernel config and OS control state of that
\* moment, and sends nothing to anyone else; a connection that has not been
\* accepted gets no STATE_UPDATE, so the snapshot is the first it gets.
C13_SnapshotOnConnect ==
    /\ \A d \in Conns :
          out[d].type = "STATE_UPDATE" => conn[d].stage = "attached"
    /\ Accepted =>
          /\ out[last.conn].type = "STATE_UPDATE"
          /\ out[last.conn].machineState = machine.stateValue
          /\ out[last.conn].state = machine.data
          /\ out[last.conn].kernelConfig = kernelMixer
          /\ out[last.conn].osControlState = uiBridge
          /\ \A d \in Conns \ {last.conn} : out[d] = NoMsg

\* an observer has joined while the clutch is engaged and the agent owns the
\* cursor
C13_Witness ==
    /\ Accepted
    /\ last.arg.role = "viewer"
    /\ machine.stateValue = "VOICE_ACTIVE"
    /\ uiBridge.owner = "JAYU_AGENT"
    /\ out[last.conn].type = "STATE_UPDATE"
    /\ Cardinality(clients) = 2

\* C14: voicePipelineStatus is IDLE in phase IDLE, LISTENING in
\* CLUTCH_ENGAGED, PROCESSING in VOICE_ACTIVE and AGENT_EXECUTING.
C14_VoiceStatusFollowsPhase ==
    machine.data.voicePipelineStatus =
        CASE machine.stateValue = "IDLE" -> "IDLE"
          [] machine.stateValue = "CLUTCH_ENGAGED" -> "LISTENING"
          [] machine.stateValue \in {"VOICE_ACTIVE", "AGENT_EXECUTING"} ->
                "PROCESSING"

\* the machine has been sent events up to AGENT_EXECUTING
C14_Witness ==
    /\ last.op = "send"
    /\ last.arg.type = "AGENT_READY"
    /\ machine.stateValue = "AGENT_EXECUTING"
    /\ machine.data.voicePipelineStatus = "PROCESSING"

\* C15: isClutchEngaged is true exactly when the phase is not IDLE.
C15_ClutchFlagFollowsPhase ==
    machine.data.isClutchEngaged <=> machine.stateValue # "IDLE"

\* the machine has been engaged from IDLE
C15_Witness ==
    /\ last.op = "send"
    /\ last.arg.type = "CLUTCH_ENGAGE"
    /\ last.from = "IDLE"
    /\ machine.data.isClutchEngaged

Clamp(x, lo, hi) == IF x < lo THEN lo ELSE IF x > hi THEN hi ELSE x

\* C16: in every phase send(DIAL_COMPUTE{delta}) sets computeMixWeight to
\* clamp(weight + delta * 0.05, 0, 1) and changes nothing else of the
\* machine, and computeMixWeight stays within [0, 1]  (weights in hundredths).
C16_DialComputeClampsEachStep ==
    [][/\ (last'.op = "send" /\ last'.arg.type = "DIAL_COMPUTE") =>
            machine' = [machine EXCEPT !.data.computeMixWeight =
                           Clamp(@ + last'.arg.delta * 5, 0, 100)]
       /\ machine'.data.computeMixWeight \in 0..100]_vars

\* the machine, executing the agent with weight 1, has been sent delta -3
C16_Witness ==
    /\ last.op = "send"
    /\ last.arg.type = "DIAL_COMPUTE"
    /\ last.arg.delta = -3
    /\ last.from = "AGENT_EXECUTING"
    /\ machine.data.computeMixWeight = 85

RECURSIVE SumOf(_)
SumOf(deltas) ==
    IF deltas = <<>> THEN 0 ELSE Head(deltas) + SumOf(Tail(deltas))

\* the weight after the deltas, clamped after each of them
RECURSIVE ClampedEachStep(_, _)
ClampedEachStep(weight, deltas) ==
    IF deltas = <<>> THEN weight
    ELSE ClampedEachStep(Clamp(weight + Head(deltas) * 5, 0, 100), Tail(deltas))

\* no weight on the way through the deltas is outside [0, 1] before its clamp
NeverClamped(deltas) ==
    \A n \in 1..Len(deltas) : 50 + 5 * SumOf(SubSeq(deltas, 1, n)) \in 0..100

\* C17 as stated: after any sequence of DIAL_COMPUTE deltas computeMixWeight
\* is clamp(initial + sum(delta_i * 0.05), 0, 1), whatever their order.
C17_WeightIsClampedSum ==
    machine.data.computeMixWeight = Clamp(50 + 5 * SumOf(DialsSent), 0, 100)

\* C17 as the code has it: computeMixWeight is the initial weight taken
\* through clamp(w + delta * 0.05, 0, 1) delta by delta in the order sent; it
\* is clamp(initial + sum(delta_i * 0.05), 0, 1) when no step was clamped.
C17_WeightIsClampedEachStep ==
    /\ machine.data.computeMixWeight = ClampedEachStep(50, DialsSent)
    /\ NeverClamped(DialsSent) =>
          machine.data.computeMixWeight = 50 + 5 * SumOf(DialsSent)

\* +100 then -3 have been sent: 0.85, where the clamped sum is 1
C17_Witness ==
    /\ DialsSent = <<100, -3>>
    /\ machine.data.computeMixWeight = 85

\* C18: the kernel mixer's computeMixWeight equals the state machine's, in the
\* daemon's state and in every STATE_UPDATE it sends.
C18_WeightsInSync ==
    /\ kernelMixer.computeMixWeight = machine.data.computeMixWeight
    /\ \A c \in Conns :
          out[c].type = "STATE_UPDATE" =>
              out[c].kernelConfig.computeMixWeight = out[c].state.computeMixWeight

\* the compute dial has been turned while the clutch is engaged, and the
\* snapshot of it sent
C18_Witness ==
    /\ last.op = "process"
    /\ last.arg.componentId = "DIAL_A"
    /\ machine.stateValue = "CLUTCH_ENGAGED"
    /\ kernelMixer.computeMixWeight = 35
    /\ out[last.conn].type = "STATE_UPDATE"

\* C19: in every kernel-mixer configuration, the initial one included,
\* primaryModel is LOCAL_LLAMA3 when computeMixWeight is below 0.5 and
\* CLOUD_CLAUDE_3_5_SONNET when it is 0.5 or above.
C19_ModelFollowsWeight ==
    kernelMixer.primaryModel =
        IF kernelMixer.computeMixWeight < 50
        THEN "LOCAL_LLAMA3" ELSE "CLOUD_CLAUDE_3_5_SONNET"

\* C20: processing a DIAL_B ROTATE event leaves contextWindowTokens at
\* clamp(tokens + delta * 6000, 8000, 128000), within [8000, 128000], not
\* below what it was for a positive delta and not above it for a negative one
\* (tokens in thousands).
C20_ContextWindowClamped ==
    [][/\ (/\ last'.op = "process"
           /\ last'.arg.deviceId = "MX_CREATIVE_CONSOLE"
           /\ last'.arg.componentId = "DIAL_B"
           /\ last'.arg.eventType = "ROTATE"
           /\ last'.arg.value.kind = "number")
          => LET delta == last'.arg.value.n
                 before == kernelMixer.contextWindowTokens
                 after == kernelMixer'.contextWindowTokens
             IN  /\ after = Clamp(before + delta * 6, 8, 128)
                 /\ delta > 0 => after >= before
                 /\ delta < 0 => after <= before
       /\ kernelMixer'.contextWindowTokens \in 8..128]_vars

\* the context dial has been turned down past the lower boundary
C20_Witness ==
    /\ last.op = "process"
    /\ last.arg = ParsedEvent(DialB(-5))
    /\ kernelMixer.contextWindowTokens = 8

\* C21: the OS control state's activePersona equals the session state's
\* activeAgentContext, in the daemon's state whenever no run is suspended and
\* in every STATE_UPDATE the daemon sends.
C21_PersonaMirror ==
    /\ (\A c \in Conns : run[c] = IdleRun)
          => uiBridge.activePersona = machine.data.activeAgentContext
    /\ \A c \in Conns :
          out[c].type = "STATE_UPDATE" =>
              out[c].osControlState.activePersona = out[c].state.activeAgentContext

\* the step hands uiBridge.engage the clutch event of connection c's run
BridgeEngageCalled(c) ==
    /\ run[c].pc = "await voicePipeline"
    /\ run[c].synapseType = "SYNAPSE_CLUTCH_ENGAGE"
    /\ last'.op = "resume"
    /\ last'.conn = c

\* C22: uiBridge.engage called while the owner is PHYSICAL_MOUSE makes the
\* owner JAYU_AGENT and sets handedOffAt to the event's timestamp; called
\* while the owner is already JAYU_AGENT it leaves owner, handedOffAt and
\* activePersona as they were.
C22_EngageIdempotent ==
    [][\A c \in Conns :
          BridgeEngageCalled(c) =>
              IF uiBridge.owner = "JAYU_AGENT"
              THEN uiBridge' = uiBridge
              ELSE /\ uiBridge'.owner = "JAYU_AGENT"
                   /\ uiBridge'.handedOffAt = run[c].event.timestamp]_vars

\* a second engage, with a later timestamp, has been called while the agent
\* owned the cursor since the first
C22_Witness ==
    /\ last.op = "resume"
    /\ run[last.conn].pc = "await uiBridge"
    /\ run[last.conn].synapseType = "SYNAPSE_CLUTCH_ENGAGE"
    /\ run[last.conn].event.timestamp = 2
    /\ uiBridge.owner = "JAYU_AGENT"
    /\ uiBridge.handedOffAt = 1

\* the step runs processHardwareEvent for connection c on a clutch event of
\* the given type, from its first line to its first await
ClutchRunStarts(c, synapseType) ==
    /\ last'.op = "process"
    /\ last'.conn = c
    /\ mapHardwareEventToSynapseType(last'.arg) = synapseType

\* C23: a CLUTCH_ENGAGE event, in the stretch up to the first await, sends
\* CLUTCH_ENGAGE to the machine and calls voicePipeline.engage without
\* touching the bridge; a CLUTCH_RELEASE event does the same with
\* CLUTCH_RELEASE and voicePipeline.release, in whatever phase the machine is.
\* The bridge's engage or release is called in the step that resumes the run
\* after the voice pipeline's promise has settled, and in that step only the
\* bridge changes.
C23_AdapterOrder ==
    [][\A c \in Conns :
          /\ ClutchRunStarts(c, "SYNAPSE_CLUTCH_ENGAGE") =>
                /\ machine' = send(machine, [type |-> "CLUTCH_ENGAGE",
                                             persona |-> uiBridge.activePersona])
                /\ voicePipeline' = voiceEngage(voicePipeline)
                /\ uiBridge' = uiBridge
                /\ run'[c].pc = "await voicePipeline"
          /\ ClutchRunStarts(c, "SYNAPSE_CLUTCH_RELEASE") =>
                /\ machine' = send(machine, [type |-> "CLUTCH_RELEASE"])
                /\ voicePipeline' = voiceRelease(voicePipeline)
                /\ uiBridge' = uiBridge
                /\ run'[c].pc = "await voicePipeline"
          /\ (run[c].pc = "await voicePipeline" /\ run'[c] # run[c]) =>
                LET clutchEvent ==
                      [type |-> IF run[c].synapseType = "SYNAPSE_CLUTCH_ENGAGE"
                                THEN "ENGAGE" ELSE "RELEASE",
                       timestamp |-> run[c].event.timestamp,
                       agentPersona |-> run[c].persona]
                IN  /\ run'[c].pc = "await uiBridge"
                    /\ uiBridge' =
                         IF run[c].synapseType = "SYNAPSE_CLUTCH_ENGAGE"
                         THEN bridgeEngage(uiBridge, clutchEvent)
                         ELSE bridgeRelease(uiBridge, clutchEvent)
                    /\ machine' = machine
                    /\ voicePipeline' = voicePipeline]_vars

\* a CLUTCH_RELEASE event that found the machine idle has called
\* voicePipeline.release and then uiBridge.release
C23_Witness ==
    /\ last.op = "resume"
    /\ run[last.conn].pc = "await uiBridge"
    /\ run[last.conn].synapseType = "SYNAPSE_CLUTCH_RELEASE"
    /\ machine.stateValue = "IDLE"
    /\ machine.data.voicePipelineStatus = "IDLE"
    /\ demoTranscriptionTimeouts = clearDemoTranscription(demoTranscriptionTimeouts)
    /\ lastTranscription = Undefined

\* C26: a sendHardwareEvent call made while state.connected is false, with
\* whatever event and whatever the sockets are doing, puts no message on any
\* socket.
C26_NothingSentWhileDisconnected ==
    [][(last'.op = "sendHardwareEvent" /\ ~plugin.state.connected)
          => /\ last'.result = "nothing"
             /\ \A ws \in PluginSockets :
                   pluginSockets'[ws].sentMessages = pluginSockets[ws].sentMessages]_vars

\* a valid event has been handed to a plugin whose socket is open but which an
\* error has flagged disconnected
C26_Witness ==
    /\ last.op = "sendHardwareEvent"
    /\ LogiHardwareEventSchema(last.arg)
    /\ ~plugin.state.connected
    /\ plugin.ws # 0
    /\ pluginSockets[plugin.ws].readyState = "OPEN"
    /\ pluginSockets[plugin.ws].sentMessages = {}

\* C27: a sendHardwareEvent call with an event that fails
\* LogiHardwareEventSchema puts no message on any socket, ends without an
\* exception and leaves the plugin's state as it was.
C27_InvalidEventNotForwarded ==
    [][(last'.op = "sendHardwareEvent" /\ ~LogiHardwareEventSchema(last'.arg))
          => /\ last'.result = "nothing"
             /\ pluginSockets' = pluginSockets
             /\ plugin' = plugin]_vars

\* an invalid event has been handed to a connected plugin whose socket is open
C27_Witness ==
    /\ last.op = "sendHardwareEvent"
    /\ ~LogiHardwareEventSchema(last.arg)
    /\ plugin.state.connected
    /\ plugin.ws # 0
    /\ pluginSockets[plugin.ws].readyState = "OPEN"

\* the mapping table of the specification
TableEntry(deviceId, componentId, eventType) ==
    LET triple == <<deviceId, componentId, eventType>>
    IN  CASE triple = <<"MX_MASTER_4", "ACTIONS_RING", "PRESS">> ->
                "SYNAPSE_CLUTCH_ENGAGE"
          [] triple = <<"MX_MASTER_4", "ACTIONS_RING", "RELEASE">> ->
                "SYNAPSE_CLUTCH_RELEASE"
          [] triple = <<"MX_CREATIVE_CONSOLE", "DIAL_A", "ROTATE">> ->
                "SYNAPSE_DIAL_COMPUTE_MIX"
          [] triple = <<"MX_CREATIVE_CONSOLE", "DIAL_B", "ROTATE">> ->
                "SYNAPSE_DIAL_CONTEXT_WINDOW"
          [] triple = <<"MX_CREATIVE_CONSOLE", "KEYPAD", "PRESS">> ->
                "SYNAPSE_KEYPAD_CONTEXT_SWITCH"
          [] triple = <<"MX_CREATIVE_CONSOLE", "KEYPAD", "TAP">> ->
                "SYNAPSE_KEYPAD_CONTEXT_SWITCH"
          [] OTHER -> Undefined

\* C24: for every deviceId, componentId and eventType,
\* mapHardwareEventToSynapseType returns the entry of the mapping table, and
\* undefined for a combination the table does not list.
C24_MappingTable ==
    last.op = "map" =>
        last.result = TableEntry(last.arg.deviceId, last.arg.componentId,
                                 last.arg.eventType)

\* the ring of the wrong device has been pressed: no mapping
C24_Witness ==
    /\ last.op = "map"
    /\ last.arg.deviceId = "MX_CREATIVE_CONSOLE"
    /\ last.arg.componentId = "ACTIONS_RING"
    /\ last.arg.eventType = "PRESS"
    /\ last.result = Undefined

\* the step processes a keypad event
KeypadProcessed ==
    /\ last'.op = "process"
    /\ mapHardwareEventToSynapseType(last'.arg) = "SYNAPSE_KEYPAD_CONTEXT_SWITCH"

\* the persona of keypad value 1, 2 or 3
PersonaOfKey(value) ==
    CASE value = Num(1) -> "CODER"
      [] value = Num(2) -> "NAVIGATOR"
      [] value = Num(3) -> "RESEARCHER"

C28_FrameRule ==
    [][last'.op = "send" =>
          /\ machine'.data.activeAgentContext # machine.data.activeAgentContext
               => \/ /\ last'.arg.type = "KEYPAD_SWITCH"
                     /\ machine.stateValue \in {"IDLE", "CLUTCH_ENGAGED"}
                  \/ /\ last'.arg.type = "CLUTCH_ENGAGE"
                     /\ last'.arg.persona # Undefined
                     /\ machine.stateValue = "IDLE"
          /\ machine'.data.computeMixWeight # machine.data.computeMixWeight
               => last'.arg.type = "DIAL_COMPUTE"
          /\ machine'.stateValue # machine.stateValue
               => /\ machine'.data.computeMixWeight = machine.data.computeMixWeight
                  /\ last'.arg.type # "CLUTCH_ENGAGE"
                       => machine'.data.activeAgentContext =
                              machine.data.activeAgentContext]_vars

\* a machine with persona RESEARCHER and weight 0.6 has been released while
\* executing the agent, and has kept both
C28_Witness ==
    /\ last.op = "send"
    /\ last.arg.type = "CLUTCH_RELEASE"
    /\ last.from = "AGENT_EXECUTING"
    /\ machine.stateValue = "IDLE"
    /\ machine.data.activeAgentContext = "RESEARCHER"
    /\ machine.data.computeMixWeight = 60

\* the event type is not among those the phase lists
Unlisted(phase, type) ==
    \/ type = "CLUTCH_ENGAGE" /\ phase # "IDLE"
    \/ type = "VOICE_READY" /\ phase # "CLUTCH_ENGAGED"
    \/ type = "AGENT_READY" /\ phase # "VOICE_ACTIVE"
    \/ type = "KEYPAD_SWITCH" /\ phase \in {"VOICE_ACTIVE", "AGENT_EXECUTING"}
    \/ type = "DIAL_CONTEXT"

\* C29: a send of an event the phase does not list (CLUTCH_ENGAGE outside
\* IDLE, VOICE_READY outside CLUTCH_ENGAGED, AGENT_READY outside VOICE_ACTIVE,
\* KEYPAD_SWITCH in VOICE_ACTIVE or AGENT_EXECUTING, DIAL_CONTEXT anywhere)
\* leaves the phase and the data as they were and returns that phase.
C29_UnlistedEventsAreNoOps ==
    [][(last'.op = "send" /\ Unlisted(machine.stateValue, last'.arg.type)) =>
          /\ machine' = machine
          /\ last'.result = machine.stateValue]_vars

\* the keypad has been sent to a machine executing the agent with another
\* persona
C29_Witness ==
    /\ last.op = "send"
    /\ last.arg.type = "KEYPAD_SWITCH"
    /\ last.from = "AGENT_EXECUTING"
    /\ last.arg.persona = "NAVIGATOR"
    /\ machine.stateValue = "AGENT_EXECUTING"
    /\ machine.data.activeAgentContext = "RESEARCHER"

\* C30: the machine's phase and data and the kernel config change only in a
\* step of a processHardwareEvent run, its first stretch or a continuation
\* after an await; no timer callback and no connection handler changes them.
C30_MutatedOnlyInProcessing ==
    [][(machine' # machine \/ kernelMixer' # kernelMixer)
          => last'.op \in {"process", "resume"}]_vars

\* C31: when a broadcast takes the last client out of the client set, because
\* its socket was not OPEN or its send threw, the clutch is not left engaged:
\* the forced CLUTCH_RELEASE has been performed by the end of that step.
C31_TransportFailureDeadMan ==
    [][(/\ last'.op \in {"process", "resume", "timeout"}
        /\ clients # {}
        /\ clients' = {})
          => ~machine'.data.isClutchEngaged]_vars

\* C32: an event chained on a connection is not lost: as long as every
\* adapter call settles, its processHardwareEvent call is started, whether or
\* not the call before it on that connection failed (while events wait, the
\* oldest of them is started), and every call that has been started comes to
\* its end.
C32_NoLostEvent ==
    \A c \in Conns :
        /\ (inboundEventQueue[c] # <<>>) ~> (last.op = "process" /\ last.conn = c)
        /\ (run[c] # IdleRun) ~> (run[c] = IdleRun)

\* the processing of an event has failed while the next event of the same
\* connection was waiting behind it
C32_Witness ==
    /\ last.op = "reject"
    /\ inboundEventQueue[last.conn] # <<>>
    /\ run[last.conn] = IdleRun

\* C33: a step that changes the machine's phase and leaves a client connected
\* either sends every client with an open socket a STATE_UPDATE whose
\* machineState is the new phase, or belongs to a processHardwareEvent run
\* that has its closing broadcast still to come.
C33_PhaseChangeIsBroadcast ==
    [][(machine'.stateValue # machine.stateValue /\ clients' # {})
          => \/ \E c \in Conns : run'[c] # IdleRun
             \/ \A d \in clients' :
                   Delivers(socket'[d]) =>
                      /\ out'[d].type = "STATE_UPDATE"
                      /\ out'[d].machineState = machine'.stateValue]_vars

\* C34: the step in which an adapter call's failure ends a
\* processHardwareEvent run leaves the machine's phase and data, and the
\* kernel config, as machine.send and the run left them; and every
\* STATE_UPDATE sent carries the machine's data, and its phase when it has a
\* machineState, as they are when it is sent.
C34_NoRollback ==
    [][/\ last'.op = "reject" => (machine' = machine /\ kernelMixer' = kernelMixer)
       /\ \A d \in Conns :
             out'[d].type = "STATE_UPDATE" =>
                /\ out'[d].state = machine'.data
                /\ out'[d].machineState \in {Undefined, machine'.stateValue}]_vars

\* a client joins after voicePipeline.engage has failed: the snapshot says
\* CLUTCH_ENGAGED, the cursor never went to the agent
C34_Witness ==
    /\ Accepted
    /\ \A c \in Conns : run[c] = IdleRun
    /\ machine.stateValue = "CLUTCH_ENGAGED"
    /\ uiBridge.owner = "PHYSICAL_MOUSE"
    /\ out[last.conn].type = "STATE_UPDATE"
    /\ out[last.conn].machineState = "CLUTCH_ENGAGED"
    /\ out[last.conn].state.isClutchEngaged

\* C35: whenever no processHardwareEvent call is running or waiting to run,
\* the OS control owner is JAYU_AGENT exactly when isClutchEngaged is true.
C35_OwnershipAtRest ==
    Quiescent =>
        (uiBridge.owner = "JAYU_AGENT" <=> machine.data.isClutchEngaged)

\* C36: once the close handler of a connection has run, no
\* processHardwareEvent call for an event of that connection calls
\* machine.send or an adapter: none starts on an event with a mapping and
\* none goes on to its bridge call.
C36_NothingAppliedAfterClose ==
    [][\A c \in Conns :
          (conn[c].isClosed /\ last'.conn = c)
             => /\ last'.op = "process" => last'.result = "dropped"
                /\ last'.op = "resume" => last'.result = "done"]_vars

\* C37: the plugin's reconnection is bounded: reconnectAttempts never exceeds
\* MAX_RECONNECT_ATTEMPTS; it goes back to 0 only in the onopen handler of the
\* current socket or in destroy(); at most one reconnect timer is scheduled at
\* any time; and the close of a socket when reconnectAttempts has reached the
\* maximum schedules no timer.
C37_ReconnectionBounded ==
    [][/\ plugin'.state.reconnectAttempts <= MAX_RECONNECT_ATTEMPTS
       /\ plugin'.timers <= 1
       /\ (plugin.state.reconnectAttempts > 0 /\ plugin'.state.reconnectAttempts = 0)
             => last'.op \in {"onopen", "destroy()"}
       /\ (last'.op = "onclose" /\ plugin.state.reconnectAttempts >= MAX_RECONNECT_ATTEMPTS)
             => (plugin'.timers = 0 /\ plugin'.reconnectTimer = "null")]_vars

\* the current socket, made by the tenth reconnect attempt, has closed and no
\* timer was scheduled
C37_Witness ==
    /\ last.op = "onclose"
    /\ last.result = "none"
    /\ last.conn = plugin.ws
    /\ ~plugin.destroyed
    /\ plugin.state.reconnectAttempts = MAX_RECONNECT_ATTEMPTS
    /\ plugin.timers = 0

\* C38: once destroy() has run the plugin stays shut down: it is destroyed
\* with no socket, no timer and connected false, and every later step leaves
\* it so, makes no socket and sends no message.
C38_StaysShutDown ==
    [][/\ plugin'.destroyed =>
             /\ plugin'.ws = 0
             /\ plugin'.timers = 0
             /\ plugin'.reconnectTimer = "null"
             /\ ~plugin'.state.connected
       /\ plugin.destroyed =>
             /\ plugin'.destroyed
             /\ Len(pluginSockets') = Len(pluginSockets)
             /\ \A ws \in PluginSockets :
                    pluginSockets'[ws].sentMessages = pluginSockets[ws].sentMessages]_vars

\* connect() was called on a destroyed plugin that had sent a message before
C38_Witness ==
    /\ plugin.destroyed
    /\ last.op = "connect()"
    /\ \E ws \in PluginSockets : pluginSockets[ws].sentMessages # {}

\* C39: whenever state.connected is true the plugin's current socket has fired
\* open and has not closed since (it is OPEN), and the open, message, error
\* and close events of a socket that is not the current one leave the plugin
\* object unchanged.
C39_ConnectedMeansOpenSocket ==
    [][/\ plugin'.state.connected =>
             /\ plugin'.ws # 0
             /\ pluginSockets'[plugin'.ws].readyState = "OPEN"
       /\ (last'.op \in {"onopen", "onmessage", "onerror", "onclose"} /\ last'.conn # plugin.ws)
             => plugin' = plugin]_vars

====
